---- MODULE Spec2Model ----
(***************************************************************************)
(* Model of wizard.py: the IOMMU-group scan select_gpu_compatible, the     *)
(* helpers it calls, and the dialog flow of main.                          *)
(*                                                                         *)
(* A Python str is modelled as a sequence of chunks (TLA+ strings), so     *)
(* that split, strip, rstrip and join are computed and not assumed:        *)
(* "0000:01:00.0" is <<"0000", ":", "01", ":", "00.0">>.                    *)
(***************************************************************************)
EXTENDS Integers, Sequences, FiniteSets, TLC

VARIABLES
    pc,                    \* position of the program
    caller,                \* who called select_gpu_compatible
    explicit,              \* the operator gave --relax-gpu-isolation
    allowed_classes,       \* select_gpu_compatible: allowed_classes
    iommu_groups,          \* select_gpu_compatible: iommu_groups (sorted)
    idx,                   \* number of loop iterations done
    iommu_group,           \* loop variable
    devices,               \* devices of the iteration
    enumerated,            \* host: slots listed in the groups read so far
    gpu_list,              \* select_gpu_compatible: gpu_list
    bad_isolation_groups,  \* select_gpu_compatible: bad_isolation_groups
    vfio_devices,          \* select_gpu_compatible: vfio_devices
    step,                  \* branch the last iteration took
    exc,                   \* exception that left select_gpu_compatible
    msgs                   \* boxes shown to the operator, in order

vars == <<pc, caller, explicit, allowed_classes, iommu_groups, idx, iommu_group,
          devices, enumerated, gpu_list, bad_isolation_groups, vfio_devices,
          step, exc, msgs>>

----------------------------------------------------------------------------
(* Bounds of the model *)

\* number of IOMMU group ids the host may expose (ids 0 .. NGroups-1)
NGroups == 2

\* largest number of devices listed in one IOMMU group
MaxDevs == 3

----------------------------------------------------------------------------
(* Program constants *)

PCI_VGA_CLASS_ID == <<"0300">>

PCI_AUDIO_CLASS_ID == <<"0403">>

PCI_BRIDGE_CLASS_ID == <<"0604">>

----------------------------------------------------------------------------
(* The host: PCI devices, what lspci prints for them, and sysfs *)

vga1 == <<"0000", ":", "01", ":", "00.0">>

aud1 == <<"0000", ":", "01", ":", "00.1">>

vga2 == <<"0000", ":", "02", ":", "00.0">>

aud2 == <<"0000", ":", "02", ":", "00.1">>

br1 == <<"0000", ":", "00", ":", "01.0">>

\* a bridge listed under an address without the domain component
brM == <<"00", ":", "1c.0">>

usb == <<"0000", ":", "00", ":", "14.0">>

\* a listed device lspci prints nothing for
gone == <<"0000", ":", "03", ":", "00.0">>

SlotSeq == <<vga1, aud1, vga2, aud2, br1, brM, usb, gone>>

Slots == {SlotSeq[i] : i \in DOMAIN SlotSeq}

\* stdout of `lspci -n -s slot`
LspciN(slot) ==
    CASE slot = vga1 -> <<"01:00.0", " ", "0300", ":", " ", "10de:2204", " ", "(rev", " ", "a1)", "\n">>
      [] slot = aud1 -> <<"01:00.1", " ", "0403", ":", " ", "10de:1aef", " ", "(rev", " ", "a1)", "\n">>
      [] slot = vga2 -> <<"02:00.0", " ", "0300", ":", " ", "10de:2204", " ", "(rev", " ", "a1)", "\n">>
      [] slot = aud2 -> <<"02:00.1", " ", "0403", ":", " ", "10de:1aef", " ", "(rev", " ", "a1)", "\n">>
      [] slot = br1  -> <<"00:01.0", " ", "0604", ":", " ", "8086:1901", "\n">>
      [] slot = brM  -> <<"00:1c.0", " ", "0604", ":", " ", "8086:a338", "\n">>
      [] slot = usb  -> <<"00:14.0", " ", "0c03", ":", " ", "8086:a36d", "\n">>
      [] OTHER -> <<>>

\* stdout of `lspci -s slot`
Lspci(slot) ==
    CASE slot = vga1 -> <<"01:00.0 VGA compatible controller", ": ", "NVIDIA GA102 [RTX 3090]", "\n">>
      [] slot = aud1 -> <<"01:00.1 Audio device", ": ", "NVIDIA GA102 HD Audio", "\n">>
      [] slot = vga2 -> <<"02:00.0 VGA compatible controller", ": ", "NVIDIA GA102 [RTX 3090]", "\n">>
      [] slot = aud2 -> <<"02:00.1 Audio device", ": ", "NVIDIA GA102 HD Audio", "\n">>
      [] slot = br1  -> <<"00:01.0 PCI bridge", ": ", "Intel PCIe Controller (x16)", "\n">>
      [] slot = brM  -> <<"00:1c.0 PCI bridge", ": ", "Intel PCH PCIe Root Port", "\n">>
      [] slot = usb  -> <<"00:14.0 USB controller", ": ", "Intel Cannon Lake PCH USB 3.1", "\n">>
      [] OTHER -> <<>>

Root == <<"pci", "0000", ":", "00">>

\* os.path.realpath("/sys/bus/pci/devices/<device>") as path components
RealPath(device) ==
    CASE device = vga1 -> << <<"sys">>, <<"devices">>, Root, br1, vga1 >>
      [] device = aud1 -> << <<"sys">>, <<"devices">>, Root, br1, aud1 >>
      [] device = vga2 -> << <<"sys">>, <<"devices">>, Root, vga2 >>
      [] device = aud2 -> << <<"sys">>, <<"devices">>, Root, aud2 >>
      [] device = br1  -> << <<"sys">>, <<"devices">>, Root, br1 >>
      [] device = brM  -> << <<"sys">>, <<"devices">>, Root, brM >>
      [] device = usb  -> << <<"sys">>, <<"devices">>, Root, usb >>
      [] OTHER -> << <<"sys">>, <<"bus">>, <<"pci">>, <<"devices">>, device >>

\* the supplier:pci:<supplier> links of sysfs, as <<device, supplier>>
SupplierLinks == { <<aud1, vga1>>, <<aud2, vga2>> }

----------------------------------------------------------------------------
(* str methods *)

IsWs(c) == c \in {" ", "\n", "\t"}

\* str.split(sep): the parts between the separators, empty parts kept
RECURSIVE SplitOn(_, _)
SplitOn(s, sep) ==
    IF \A i \in DOMAIN s : s[i] # sep
    THEN <<s>>
    ELSE LET k == CHOOSE i \in DOMAIN s :
                      s[i] = sep /\ \A j \in 1..(i - 1) : s[j] # sep
         IN <<SubSeq(s, 1, k - 1)>> \o SplitOn(SubSeq(s, k + 1, Len(s)), sep)

\* str.split(): the runs of non-whitespace
RECURSIVE SplitWs(_)
SplitWs(s) ==
    IF s = <<>> THEN <<>>
    ELSE IF IsWs(s[1]) THEN SplitWs(Tail(s))
    ELSE LET ends == {i \in 1..Len(s) : i = Len(s) \/ IsWs(s[i + 1])}
             k == CHOOSE i \in ends : \A j \in ends : i <= j
         IN <<SubSeq(s, 1, k)>> \o SplitWs(SubSeq(s, k + 1, Len(s)))

\* str.rstrip(c)
RECURSIVE RStrip(_, _)
RStrip(s, c) ==
    IF s # <<>> /\ s[Len(s)] = c THEN RStrip(SubSeq(s, 1, Len(s) - 1), c) ELSE s

\* str.strip()
RECURSIVE Strip(_)
Strip(s) ==
    IF s = <<>> THEN s
    ELSE IF IsWs(s[1]) THEN Strip(Tail(s))
    ELSE IF IsWs(s[Len(s)]) THEN Strip(SubSeq(s, 1, Len(s) - 1))
    ELSE s

\* sep.join(parts)
RECURSIVE Join(_, _)
Join(parts, sep) ==
    IF parts = <<>> THEN <<>>
    ELSE IF Len(parts) = 1 THEN parts[1]
    ELSE parts[1] \o <<sep>> \o Join(Tail(parts), sep)

\* dict.get(key, default)
Get(d, key, default) == IF key \in DOMAIN d THEN d[key] ELSE default

----------------------------------------------------------------------------
(* Results of calls that may raise *)

Ok(v) == [exc |-> "none", value |-> v]

Raise(e) == [exc |-> e, value |-> <<>>]

----------------------------------------------------------------------------
(* The helpers of wizard.py *)

RECURSIVE SortedInts(_)
SortedInts(S) ==
    IF S = {} THEN <<>>
    ELSE LET m == CHOOSE x \in S : \A y \in S : x <= y
         IN <<m>> \o SortedInts(S \ {m})

\* listing: what os.listdir("/sys/kernel/iommu_groups") returns
get_iommu_groups(listing) == SortedInts(listing)

get_pci_full_string_description_from_slot(slot) == Strip(Lspci(slot))

\* the three lspci queries, tabulated once per slot of the host
Description == [s \in Slots |-> get_pci_full_string_description_from_slot(s)]

\* variant: the descriptions of the bucketed (display, audio, bridge) members only
list_pci_devices_bucketed_only(devs) ==
    LET Kept(d) == LspciN(d) # <<>> /\ LspciN(d)[3] \in {"0300", "0403", "0604"}
        kept == SelectSeq(devs, Kept)
    IN [i \in 1..Len(kept) |-> Description[kept[i]]]

list_pci_devices_in_iommu_group(devs) ==
    [i \in 1..Len(devs) |-> Description[devs[i]]]

get_pid_vid_from_slot(slot) ==
    LET out == SplitWs(LspciN(slot))
    IN IF Len(out) < 3 THEN Raise("IndexError") ELSE Ok(out[3])

get_class_from_slot(slot) ==
    LET out == SplitWs(LspciN(slot))
    IN IF Len(out) < 2 THEN Raise("IndexError") ELSE Ok(RStrip(out[2], ":"))

PidVid == [s \in Slots |-> get_pid_vid_from_slot(s)]

Class == [s \in Slots |-> get_class_from_slot(s)]

\* variant: every allowed device is appended under the display key
parse_devices_display_key(devs, allowed) ==
    IF \E i \in DOMAIN devs : Class[devs[i]].exc # "none"
    THEN Raise("IndexError")
    ELSE LET IsAllowed(d) == \E i \in DOMAIN allowed : allowed[i] = Class[d].value
             kept == SelectSeq(devs, IsAllowed)
         IN Ok([c \in (IF kept = <<>> THEN {} ELSE {<<"0300">>}) |-> kept])

parse_devices(devs, allowed) ==
    IF \E i \in DOMAIN devs : Class[devs[i]].exc # "none"
    THEN Raise("IndexError")
    ELSE LET cls(d) == Class[d].value
             keys == {cls(devs[i]) : i \in DOMAIN devs} \cap
                     {allowed[i] : i \in DOMAIN allowed}
         IN Ok([c \in keys |->
                   LET HasClass(d) == cls(d) = c IN SelectSeq(devs, HasClass)])

\* variant: subset test in place of set equality
has_only_allowed_devices_subset(parsed, devs) ==
    LET filtered == UNION {{parsed[c][i] : i \in DOMAIN parsed[c]} : c \in DOMAIN parsed}
    IN filtered \subseteq {devs[i] : i \in DOMAIN devs}

has_only_allowed_devices(parsed, devs) ==
    LET filtered == UNION {{parsed[c][i] : i \in DOMAIN parsed[c]} : c \in DOMAIN parsed}
    IN filtered = {devs[i] : i \in DOMAIN devs}

\* variant: only an address of more than three components is refused, so a
\* shorter one fails in the unpacking of domain, bus, _
is_pci_bridge_of_device_too_long_only(pci_bridge_device, device) ==
    LET parsed_bridge_device == SplitOn(pci_bridge_device, ":")
    IN IF Len(parsed_bridge_device) > 3
       THEN Raise("WizardError")
       ELSE IF Len(parsed_bridge_device) < 3
       THEN Raise("ValueError")
       ELSE Ok(RealPath(device) =
                 << <<"sys">>, <<"devices">>,
                    <<"pci">> \o parsed_bridge_device[1] \o <<":">> \o parsed_bridge_device[2],
                    pci_bridge_device, device >>)

is_pci_bridge_of_device(pci_bridge_device, device) ==
    LET parsed_bridge_device == SplitOn(pci_bridge_device, ":")
    IN IF Len(parsed_bridge_device) # 3
       THEN Raise("WizardError")
       ELSE LET domain == parsed_bridge_device[1]
                bus == parsed_bridge_device[2]
                real_device_path ==
                    << <<"sys">>, <<"devices">>, <<"pci">> \o domain \o <<":">> \o bus,
                       pci_bridge_device, device >>
            IN Ok(RealPath(device) = real_device_path)

is_pci_supplier_of_device(pci_supplier_device, device) ==
    <<device, pci_supplier_device>> \in SupplierLinks

----------------------------------------------------------------------------
(* select_gpu_compatible *)

\* the default of the parameter allow_pci_bridge
DefaultAllowPciBridge == TRUE

AllowedClasses(allow_pci_bridge) ==
    IF allow_pci_bridge
    THEN <<PCI_VGA_CLASS_ID, PCI_AUDIO_CLASS_ID, PCI_BRIDGE_CLASS_ID>>
    ELSE <<PCI_VGA_CLASS_ID, PCI_AUDIO_CLASS_ID>>

\* "Check if a GPU exists"
NoGpu(parsed) == PCI_VGA_CLASS_ID \notin DOMAIN parsed

\* the condition of the isolation check, evaluated left to right
BadIsolation(parsed, devs) ==
    LET pci_vga_device == parsed[PCI_VGA_CLASS_ID][1]
        pci_bridge_device == Get(parsed, PCI_BRIDGE_CLASS_ID, << <<>> >>)[1]
        pci_audio_device == Get(parsed, PCI_AUDIO_CLASS_ID, << <<>> >>)[1]
        audio_check ==
            Ok(pci_audio_device # <<>>
               /\ ~is_pci_supplier_of_device(pci_vga_device, pci_audio_device))
    IN IF ~has_only_allowed_devices(parsed, devs) THEN Ok(TRUE)
       ELSE IF Len(Get(parsed, PCI_BRIDGE_CLASS_ID, <<>>)) > 1 THEN Ok(TRUE)
       ELSE IF Len(Get(parsed, PCI_AUDIO_CLASS_ID, <<>>)) > 1 THEN Ok(TRUE)
       ELSE IF Len(parsed[PCI_VGA_CLASS_ID]) > 1 THEN Ok(TRUE)
       ELSE IF pci_bridge_device # <<>>
            THEN LET r == is_pci_bridge_of_device(pci_bridge_device, pci_vga_device)
                 IN IF r.exc # "none" THEN r
                    ELSE IF ~r.value THEN Ok(TRUE)
                    ELSE audio_check
            ELSE audio_check

\* variant: the bridge bucket is passed through as well
VfioDevicesWithBridge(parsed) ==
    IF PCI_VGA_CLASS_ID \notin DOMAIN parsed \/ PCI_AUDIO_CLASS_ID \notin DOMAIN parsed
    THEN Raise("KeyError")
    ELSE Ok(parsed[PCI_VGA_CLASS_ID] \o parsed[PCI_AUDIO_CLASS_ID]
            \o Get(parsed, PCI_BRIDGE_CLASS_ID, <<>>))

\* variant: the audio bucket comes first
VfioDevicesAudioFirst(parsed) ==
    IF PCI_VGA_CLASS_ID \notin DOMAIN parsed \/ PCI_AUDIO_CLASS_ID \notin DOMAIN parsed
    THEN Raise("KeyError")
    ELSE Ok(parsed[PCI_AUDIO_CLASS_ID] \o parsed[PCI_VGA_CLASS_ID])

VfioDevices(parsed) ==
    IF PCI_VGA_CLASS_ID \notin DOMAIN parsed \/ PCI_AUDIO_CLASS_ID \notin DOMAIN parsed
    THEN Raise("KeyError")
    ELSE Ok(parsed[PCI_VGA_CLASS_ID] \o parsed[PCI_AUDIO_CLASS_ID])

Vfio(devs) ==
    IF \E i \in DOMAIN devs : PidVid[devs[i]].exc # "none"
    THEN Raise("IndexError")
    ELSE Ok(Join([i \in DOMAIN devs |-> PidVid[devs[i]].value], ","))

\* one iteration of the loop over iommu_groups
Iteration(group, devs, allowed, gl, bad, vd) ==
    LET out(s, e, g, b, v) ==
            [step |-> s, exc |-> e, gpu_list |-> g, bad |-> b, vfio_devices |-> v]
        p == parse_devices(devs, allowed)
        parsed == p.value
        chk == BadIsolation(parsed, devs)
        vdev == VfioDevices(parsed)
        vfio == Vfio(vdev.value)
        gpu_vga_slot == parsed[PCI_VGA_CLASS_ID][1]
    IN IF p.exc # "none" THEN out("raise", p.exc, gl, bad, vd)
       ELSE IF NoGpu(parsed) THEN out("skip", "none", gl, bad, vd)
       ELSE IF PCI_VGA_CLASS_ID \notin DOMAIN parsed
            THEN out("raise", "KeyError", gl, bad, vd)
       ELSE IF chk.exc # "none" THEN out("raise", chk.exc, gl, bad, vd)
       ELSE IF chk.value
            THEN out("reject", "none", gl,
                     [g \in DOMAIN bad \cup {group} |->
                         IF g = group THEN list_pci_devices_in_iommu_group(devs)
                         ELSE bad[g]],
                     vd)
       ELSE IF vdev.exc # "none" THEN out("raise", vdev.exc, gl, bad, vd)
       ELSE IF vfio.exc # "none" THEN out("raise", vfio.exc, gl, bad, vdev.value)
       ELSE out("accept", "none",
                Append(gl, [description |-> Description[gpu_vga_slot],
                            vfio |-> vfio.value,
                            slot |-> gpu_vga_slot]),
                bad, vdev.value)

----------------------------------------------------------------------------
(* The host's IOMMU groups, as get_iommu_group_devices reads them *)

RECURSIVE Ascending(_)
Ascending(I) ==
    IF I = {} THEN <<>>
    ELSE LET m == CHOOSE x \in I : \A y \in I : x <= y
         IN <<SlotSeq[m]>> \o Ascending(I \ {m})

Reverse(s) == [i \in 1..Len(s) |-> s[Len(s) + 1 - i]]

\* the orders os.listdir is taken to return a group's devices in
AllListings ==
    LET sets == {I \in SUBSET DOMAIN SlotSeq : Cardinality(I) <= MaxDevs}
    IN {Ascending(I) : I \in sets} \cup {Reverse(Ascending(I)) : I \in sets}

\* a device is in one group only: the slots already enumerated are not
\* listed again
Listings(taken) ==
    {l \in AllListings : \A i \in DOMAIN l : l[i] \notin taken}

----------------------------------------------------------------------------
(* The program *)

Init ==
    /\ pc = "init"
    /\ caller = "none"
    /\ explicit = FALSE
    /\ allowed_classes = <<>>
    /\ iommu_groups = <<>>
    /\ idx = 0
    /\ iommu_group = -1
    /\ devices = <<>>
    /\ enumerated = {}
    /\ gpu_list = <<>>
    /\ bad_isolation_groups = <<>>
    /\ vfio_devices = <<>>
    /\ step = "none"
    /\ exc = "none"
    /\ msgs = <<>>

\* select_gpu_compatible(): the entry of a call without the argument
CallDefault ==
    /\ pc = "init"
    /\ \E listing \in SUBSET (0..(NGroups - 1)) :
           iommu_groups' = get_iommu_groups(listing)
    /\ pc' = "scan"
    /\ caller' = "direct"
    /\ explicit' = FALSE
    /\ allowed_classes' = AllowedClasses(DefaultAllowPciBridge)
    /\ UNCHANGED <<idx, iommu_group, devices, enumerated, gpu_list,
                   bad_isolation_groups, vfio_devices, step, exc, msgs>>

Box(kind, group, lines) == [kind |-> kind, group |-> group, lines |-> lines]

\* main(): parse_args, the yes/no box, and the call of select_gpu_compatible
\* with allow_pci_bridge=args.relax_gpu_isolation
MainStart ==
    /\ pc = "init"
    /\ \E relax_gpu_isolation \in BOOLEAN, code \in {"ok", "cancel", "esc"} :
          /\ caller' = "main"
          /\ IF code = "ok"
             THEN /\ \E listing \in SUBSET (0..(NGroups - 1)) :
                         iommu_groups' = get_iommu_groups(listing)
                  /\ pc' = "scan"
                  /\ explicit' = relax_gpu_isolation
                  /\ allowed_classes' = AllowedClasses(relax_gpu_isolation)
                  /\ msgs' = msgs
             ELSE IF code = "cancel"
             THEN /\ pc' = "done"
                  /\ msgs' = Append(msgs, Box("No GPU selection.", -1, <<>>))
                  /\ UNCHANGED <<explicit, allowed_classes, iommu_groups>>
             ELSE /\ pc' = "exited"
                  /\ UNCHANGED <<explicit, allowed_classes, iommu_groups, msgs>>
    /\ UNCHANGED <<idx, iommu_group, devices, enumerated, gpu_list,
                   bad_isolation_groups, vfio_devices, step, exc>>

\* the body of `for iommu_group in iommu_groups`, once
ClassifyGroup ==
    /\ pc = "scan"
    /\ idx < Len(iommu_groups)
    /\ \E devs \in Listings(enumerated) :
          LET r == Iteration(iommu_groups[idx + 1], devs, allowed_classes,
                             gpu_list, bad_isolation_groups, vfio_devices)
          IN /\ devices' = devs
             /\ enumerated' = enumerated \cup {devs[i] : i \in DOMAIN devs}
             /\ step' = r.step
             /\ exc' = r.exc
             /\ gpu_list' = r.gpu_list
             /\ bad_isolation_groups' = r.bad
             /\ vfio_devices' = r.vfio_devices
             /\ pc' = IF r.exc # "none" THEN "raised" ELSE "scan"
    /\ iommu_group' = iommu_groups[idx + 1]
    /\ idx' = idx + 1
    /\ UNCHANGED <<caller, explicit, allowed_classes, iommu_groups, msgs>>

\* return gpu_list, bad_isolation_groups (to a caller other than main)
Return ==
    /\ pc = "scan"
    /\ idx = Len(iommu_groups)
    /\ caller = "direct"
    /\ pc' = "returned"
    /\ UNCHANGED <<caller, explicit, allowed_classes, iommu_groups, idx,
                   iommu_group, devices, enumerated, gpu_list,
                   bad_isolation_groups, vfio_devices, step, exc, msgs>>

\* the boxes main shows for the groups of bad_isolation_groups, in key order
BadBoxes(bad) ==
    LET keys == SortedInts(DOMAIN bad)
        shown == SelectSeq(keys, LAMBDA g : bad[g] # <<>>)
    IN [i \in 1..Len(shown) |-> Box("bad isolation", shown[i], bad[shown[i]])]

\* what main shows after the menu returned (code, gpu_tag)
MenuBoxes(gl, code, gpu_tag) ==
    IF code # ""
    THEN LET hits == {i \in DOMAIN gl : gl[i].description = gpu_tag}
         IN IF hits # {}
            THEN LET i == CHOOSE h \in hits : \A k \in hits : h <= k
                 IN <<Box("Selected GPU", -1, <<gl[i].slot, gl[i].vfio>>)>>
            ELSE <<Box("Invalid GPU selection.", -1, <<>>)>>
    ELSE <<Box("No GPU selected.", -1, <<>>)>>

\* main() after select_gpu_compatible returned
MainReport ==
    /\ pc = "scan"
    /\ idx = Len(iommu_groups)
    /\ caller = "main"
    /\ IF gpu_list = <<>>
       THEN msgs' = msgs \o BadBoxes(bad_isolation_groups)
                         \o <<Box("No compatible GPU available.", -1, <<>>)>>
       ELSE \E code \in {"ok", "cancel", "esc"} :
            \E gpu_tag \in IF code = "ok"
                           THEN {gpu_list[i].description : i \in DOMAIN gpu_list}
                           ELSE {<<>>} :
                msgs' = msgs \o MenuBoxes(gpu_list, code, gpu_tag)
    /\ pc' = "done"
    /\ UNCHANGED <<caller, explicit, allowed_classes, iommu_groups, idx,
                   iommu_group, devices, enumerated, gpu_list,
                   bad_isolation_groups, vfio_devices, step, exc>>

Next ==
    \/ CallDefault
    \/ MainStart
    \/ ClassifyGroup
    \/ Return
    \/ MainReport

Spec == Init /\ [][Next]_vars

----------------------------------------------------------------------------
(* Vocabulary of the properties: the host's facts about the group of the   *)
(* last iteration, read from the lspci rows and sysfs directly             *)

Members == {devices[i] : i \in DOMAIN devices}

Readable(d) == LspciN(d) # <<>>

ClassCode(d) == LspciN(d)[3]

VendorDevice(d) == LspciN(d)[6]

DescriptionLine(d) ==
    IF Lspci(d) = <<>> THEN <<>> ELSE SubSeq(Lspci(d), 1, Len(Lspci(d)) - 1)

AllReadable == \A d \in Members : Readable(d)

Displays == {d \in Members : Readable(d) /\ ClassCode(d) = "0300"}

Audios == {d \in Members : Readable(d) /\ ClassCode(d) = "0403"}

Bridges == {d \in Members : Readable(d) /\ ClassCode(d) = "0604"}

AllowBridgeInGroup == \E i \in DOMAIN allowed_classes : allowed_classes[i] = <<"0604">>

Colons(addr) == Cardinality({i \in DOMAIN addr : addr[i] = ":"})

WellFormed(addr) == Colons(addr) = 2

\* b is the directory right above d in sysfs
Upstream(b, d) == RealPath(d)[Len(RealPath(d)) - 1] = b

\* an iteration of the scan has run; devices, iommu_group, step are its
Classified == step # "none"

Unrelated ==
    \E d \in Members \ (Displays \cup Audios \cup
                        (IF AllowBridgeInGroup THEN Bridges ELSE {})) : TRUE

CountRejected ==
    \/ Unrelated
    \/ Cardinality(Bridges) > 1
    \/ Cardinality(Audios) > 1
    \/ Cardinality(Displays) > 1

BridgeNotParent ==
    \E b \in Bridges : \E v \in Displays : WellFormed(b) /\ ~Upstream(b, v)

AudioNotSupplied ==
    \E a \in Audios : \E v \in Displays : <<a, v>> \notin SupplierLinks

AnyRejection == CountRejected \/ BridgeNotParent \/ AudioNotSupplied

\* the bridge-parent check is reached and its bridge address does not parse
MalformedBridgeReached ==
    /\ AllReadable /\ Displays # {} /\ ~CountRejected
    /\ \E b \in Bridges : ~WellFormed(b)

RecordedBad == iommu_group \in DOMAIN bad_isolation_groups

RecordedGpu == \E i \in DOMAIN gpu_list : gpu_list[i].slot \in Members

----------------------------------------------------------------------------
(* Properties *)

\* C1, as stated: for every classified group with a display member (and
\* readable members), a BadIsolationGroup is recorded for it if and only if
\* one of the six rejection conditions holds.
C1_AsStated ==
    (Classified /\ AllReadable /\ Displays # {}) => (RecordedBad <=> AnyRejection)

\* C1, amended: the same equivalence for every classified group whose
\* bridge-parent check is not reached with a malformed bridge address; when
\* it is, nothing is recorded, whatever the audio member.
C1_RejectIff ==
    (Classified /\ AllReadable /\ Displays # {}) =>
        IF MalformedBridgeReached THEN ~RecordedBad
        ELSE (RecordedBad <=> AnyRejection)

\* C1 witness: a group rejected only because its bridge is not the parent.
C1_Witness ==
    /\ Classified /\ AllReadable /\ Displays # {} /\ RecordedBad
    /\ ~CountRejected /\ BridgeNotParent /\ ~AudioNotSupplied

\* C2: a group with exactly one display member and no rejection condition
\* is accepted and classifyAll goes on normally, also without an audio
\* member, and then the passthrough set is the display member alone.
C2_AcceptedWithoutAudio ==
    (Classified /\ AllReadable /\ Cardinality(Displays) = 1 /\ ~AnyRejection
     /\ ~MalformedBridgeReached) =>
        /\ step = "accept" /\ exc = "none"
        /\ gpu_list # <<>> /\ gpu_list[Len(gpu_list)].slot \in Displays
        /\ (Audios = {} => {vfio_devices[i] : i \in DOMAIN vfio_devices} = Displays)

\* C3: for an accepted group the passthrough devices are members of the
\* group, exactly one display plus at most one audio device, never a bridge,
\* and the emitted id string is made of their ids.
C3_Passthrough ==
    step = "accept" =>
        LET vf == {vfio_devices[i] : i \in DOMAIN vfio_devices}
        IN /\ vf \subseteq Members
           /\ Cardinality(vf \cap Displays) = 1
           /\ Cardinality(vf \cap Audios) <= 1
           /\ vf \subseteq Displays \cup Audios
           /\ vf \cap Bridges = {}
           /\ Len(vfio_devices) = Cardinality(vf)
           /\ gpu_list[Len(gpu_list)].vfio =
                  Join([i \in DOMAIN vfio_devices |-> <<VendorDevice(vfio_devices[i])>>], ",")

\* C3 witness: an accepted group that holds a bridge.
C3_Witness == step = "accept" /\ Bridges # {}

\* C4: a failing lookup aborts the classification of its group only: the
\* scan goes on with the remaining groups, and the group is recorded nowhere.
C4_LookupFailureKeepsScanning ==
    (Classified /\ ~AllReadable) =>
        /\ pc \in {"scan", "returned", "done"}
        /\ ~RecordedBad /\ ~RecordedGpu

\* C5: is_pci_bridge_of_device raises the malformed-address error exactly
\* when the bridge address has not three components; with the bridge
\* allowed, a group of one display, one such bridge and at most one audio
\* member supplied by the display is recorded neither as bad nor as
\* compatible, and the error leaves select_gpu_compatible.
C5_MalformedBridge ==
    (Classified /\ AllReadable /\ Displays # {} /\ ~CountRejected /\ Bridges # {}) =>
        /\ (exc = "WizardError") <=> (\E b \in Bridges : Colons(b) # 2)
        /\ (\E b \in Bridges : Colons(b) # 2) =>
               /\ step = "raise" /\ pc = "raised"
               /\ ~RecordedBad /\ ~RecordedGpu

\* C5 witness: display, supplied audio and a malformed bridge.
C5_Witness ==
    /\ Classified /\ AllReadable /\ ~CountRejected /\ AllowBridgeInGroup
    /\ Cardinality(Displays) = 1 /\ Cardinality(Audios) = 1 /\ ~AudioNotSupplied
    /\ \E b \in Bridges : Colons(b) # 2
    /\ exc = "WizardError"

\* C6: classifying a group without a display member adds no CompatibleGpu
\* and no BadIsolationGroup and leaves the accumulated results unchanged.
C6_NoDisplayNoRecord ==
    [][(idx' = idx + 1
        /\ \A i \in DOMAIN devices' :
              ~(Readable(devices'[i]) /\ ClassCode(devices'[i]) = "0300"))
       => /\ gpu_list' = gpu_list
          /\ bad_isolation_groups' = bad_isolation_groups
          /\ iommu_group' \notin DOMAIN bad_isolation_groups']_vars

\* C6 witness: a group of other devices skipped after earlier results.
C6_Witness ==
    /\ step = "skip" /\ Displays = {} /\ Bridges # {} /\ Audios # {}
    /\ gpu_list # <<>> /\ idx = 2

\* C7: the list recorded for a rejected group has exactly one description
\* per member of the group as enumerated, disallowed members included.
C7_FullMemberList ==
    step = "reject" =>
        /\ RecordedBad
        /\ Len(bad_isolation_groups[iommu_group]) = Len(devices)
        /\ \A i \in DOMAIN devices :
              bad_isolation_groups[iommu_group][i] = DescriptionLine(devices[i])

\* C7 witness: a rejected group of three with a member of a disallowed class.
C7_Witness == step = "reject" /\ Unrelated /\ Len(devices) = 3 /\ Displays # {}

\* C8: when the operator asked to select a GPU and the scan returned, every
\* rejected group was shown with its id and device list by the end.
C8_RejectedGroupsShown ==
    (pc = "done" /\ caller = "main" /\ exc = "none") =>
        \A g \in DOMAIN bad_isolation_groups :
            \E i \in DOMAIN msgs :
                msgs[i].group = g /\ msgs[i].lines = bad_isolation_groups[g]

\* C9: without an explicit choice of the toggle the bridge class is not
\* allowed, and a group with a display and a bridge is rejected.
C9_DefaultDisallowsBridge ==
    (caller # "none" /\ ~explicit /\ pc # "init" /\ pc # "exited"
     /\ allowed_classes # <<>>) =>
        /\ ~AllowBridgeInGroup
        /\ (Classified /\ AllReadable /\ Displays # {} /\ Bridges # {})
               => step = "reject"

\* C10: the CompatibleGpu of an accepted group has the display member's
\* address as slot, its description, and as id string the display's id,
\* then a comma and the audio member's id when there is one, whatever the
\* order the members were enumerated in.
C10_EmittedRecord ==
    step = "accept" =>
        LET e == gpu_list[Len(gpu_list)]
        IN \E v \in Displays :
              /\ Displays = {v}
              /\ e.slot = v
              /\ e.description = DescriptionLine(v)
              /\ e.vfio = IF Audios = {} THEN <<VendorDevice(v)>>
                          ELSE LET a == CHOOSE x \in Audios : TRUE
                               IN <<VendorDevice(v), ",", VendorDevice(a)>>

\* C10 witness: an accepted group enumerated with the audio member first.
C10_Witness ==
    step = "accept" /\ devices[1] \in Audios /\ Len(gpu_list) = 2

====
